---- MODULE Spec2Model ----
(***************************************************************************)
(* A model of redis-api/app/main.py: five FastAPI handlers over one Redis  *)
(* database.  Every handler is a short sequence of Redis commands; each    *)
(* command is atomic in the store, and the handlers (plain `def`, so run   *)
(* by the framework's thread pool) interleave between commands.            *)
(***************************************************************************)
EXTENDS Naturals, Integers, Sequences, FiniteSets, TLC

\* ---------------------------------------------------------------- bounds
NumWorkers == 2
MaxRequests == 4

Workers == 1..NumWorkers

\* ---------------------------------------------------------------- inputs
Names == {"Ann", "Bob"}
Emails == {"ann@x.com", "bob@x.com"}

\* class User(BaseModel): name: str, email: EmailStr
User == [name : Names, email : Emails]

\* ------------------------------------------------------- the Redis client
\* What the client sends and receives is bytes; str arguments are encoded on
\* the way in and the handlers decode what comes back.
Encode(s) == [bytes |-> s]
Decode(b) == b.bytes

EmptyStore == [k \in {} |-> k]
EmptyHash == [f \in {} |-> f]

\* EXISTS key: the number of the named keys that exist.
Exists(s, key) == IF key \in DOMAIN s THEN 1 ELSE 0

\* HGETALL key: the hash's fields, the empty map for a missing key.
HGetAll(s, key) == IF key \in DOMAIN s THEN s[key] ELSE EmptyHash

\* A bug: HSETNX's rule, a field already set keeps its value.
HSetKeepsOld(s, key, mapping) ==
    LET old == HGetAll(s, key)
        new == [f \in DOMAIN old \cup {Encode(x) : x \in DOMAIN mapping} |->
                   IF f \in DOMAIN old THEN old[f] ELSE Encode(mapping[Decode(f)])]
    IN  [k \in DOMAIN s \cup {key} |-> IF k = key THEN new ELSE s[k]]

\* HSET key field value [field value ...]: sets the given fields of the hash
\* at key, creating it when missing and keeping its other fields.
HSet(s, key, mapping) ==
    LET old == HGetAll(s, key)
        new == [f \in DOMAIN old \cup {Encode(x) : x \in DOMAIN mapping} |->
                   IF Decode(f) \in DOMAIN mapping
                   THEN Encode(mapping[Decode(f)])
                   ELSE old[f]]
    IN  [k \in DOMAIN s \cup {key} |-> IF k = key THEN new ELSE s[k]]

\* A bug: the reply counts the key, which stays.
DelKeepsKey(s, key) == s

\* DEL key: removes the key; the reply is the number of keys removed.
DelReply(s, key) == IF key \in DOMAIN s THEN 1 ELSE 0
Del(s, key) == [k \in DOMAIN s \ {key} |-> s[k]]

\* A bug: the pattern without its star names one key, the prefix itself.
KeysNoGlob(s, prefix) == {k \in DOMAIN s : k = <<prefix>>}

\* KEYS prefix*: the keys that start with the prefix.
Keys(s, prefix) == {k \in DOMAIN s : k[1] = prefix}

\* ------------------------------------------------------------ the handlers
\* f"user:{email}": the prefix and the email, kept as a pair.
UserKey(email) == <<"user:", email>>

\* mapping={"name": user.name, "email": user.email}
UserMapping(user) == [name |-> user.name, email |-> user.email]

\* {key.decode('utf-8'): value.decode('utf-8') for key, value in user_data.items()}
DecodeUser(user_data) ==
    [f \in {Decode(k) : k \in DOMAIN user_data} |-> Decode(user_data[Encode(f)])]

\* A bug: create_user without its check.
CreateUnchecked(s, user_key) == FALSE

\* if redis_client.exists(user_key): raise 400
CreateConflict(s, user_key) == Exists(s, user_key) # 0

\* if not redis_client.exists(user_key): raise 404   (get_user)
GetMissing(s, user_key) == Exists(s, user_key) = 0

\* A bug: update_user without its check.
UpdateUnchecked(s, user_key) == FALSE

\* if not redis_client.exists(user_key): raise 404   (update_user)
UpdateMissing(s, user_key) == Exists(s, user_key) = 0

\* A bug: delete_user ignoring DEL's reply.
DeleteUnchecked(result) == FALSE

\* if not result: raise 404   (delete_user)
DeleteMissing(result) == result = 0

HTTPException(status_code, detail) ==
    [status |-> status_code, body |-> [detail |-> detail]]
Ok(body) == [status |-> 200, body |-> body]
Message(text) == Ok([message |-> text])

NoRequest == [op |-> "none"]
NoResponse == [status |-> 0]

VARIABLES
    store,        \* the Redis database: key -> hash (field -> value, as bytes)
    pc,           \* per worker: where its handler stands
    req,          \* per worker: the request it serves
    keys,         \* per worker: get_all_users' keys still to read
    users,        \* per worker: get_all_users' list so far
    resp,         \* per worker: the response of the finished handler
    served,       \* requests accepted so far
    lastWrite,    \* history: per stored key, the user of the last successful write
    deleted,      \* history: keys deleted successfully and not created since
    created,      \* history: users created, while no update or delete succeeded
    createsOnly,  \* history: no update or delete has succeeded yet
    live          \* history: per key, writes that made it exist minus successful deletes

vars == <<store, pc, req, keys, users, resp, served,
          lastWrite, deleted, created, createsOnly, live>>
locals == <<keys, users>>
history == <<lastWrite, deleted, created, createsOnly, live>>

AllKeys == {UserKey(e) : e \in Emails}

Init ==
    /\ store = EmptyStore
    /\ pc = [p \in Workers |-> "idle"]
    /\ req = [p \in Workers |-> NoRequest]
    /\ keys = [p \in Workers |-> {}]
    /\ users = [p \in Workers |-> <<>>]
    /\ resp = [p \in Workers |-> NoResponse]
    /\ served = 0
    /\ lastWrite = [k \in {} |-> k]
    /\ deleted = {}
    /\ created = {}
    /\ createsOnly = TRUE
    /\ live = [k \in AllKeys |-> 0]

Accept(p, request) ==
    /\ pc[p] = "idle"
    /\ served < MaxRequests
    /\ served' = served + 1
    /\ req' = [req EXCEPT ![p] = request]

Finish(p, response) ==
    /\ pc' = [pc EXCEPT ![p] = "done"]
    /\ resp' = [resp EXCEPT ![p] = response]

\* read_root
ReadRoot(p) ==
    /\ Accept(p, [op |-> "read_root"])
    /\ Finish(p, Message("Welcome to the Redis API"))
    /\ UNCHANGED <<store, locals, history>>

\* create_user, to its EXISTS
CreateExists(p) ==
    \E user \in User :
        /\ Accept(p, [op |-> "create_user", user |-> user])
        /\ IF CreateConflict(store, UserKey(user.email))
           THEN Finish(p, HTTPException(400, "User already exists"))
           ELSE /\ pc' = [pc EXCEPT ![p] = "create_hset"]
                /\ UNCHANGED resp
        /\ UNCHANGED <<store, locals, history>>

\* create_user, its HSET and return
CreateHSet(p) ==
    LET user == req[p].user
        user_key == UserKey(user.email)
    IN  /\ pc[p] = "create_hset"
        /\ store' = HSet(store, user_key, UserMapping(user))
        /\ Finish(p, Message("User created successfully"))
        /\ lastWrite' = [k \in DOMAIN lastWrite \cup {user_key} |->
                            IF k = user_key THEN user ELSE lastWrite[k]]
        /\ deleted' = deleted \ {user_key}
        /\ created' = IF createsOnly THEN created \cup {user} ELSE created
        /\ live' = [live EXCEPT ![user_key] = @ + (1 - Exists(store, user_key))]
        /\ UNCHANGED <<req, locals, served, createsOnly>>

\* get_user, to its EXISTS
GetExists(p) ==
    \E email \in Emails :
        /\ Accept(p, [op |-> "get_user", email |-> email])
        /\ IF GetMissing(store, UserKey(email))
           THEN Finish(p, HTTPException(404, "User not found"))
           ELSE /\ pc' = [pc EXCEPT ![p] = "get_hgetall"]
                /\ UNCHANGED resp
        /\ UNCHANGED <<store, locals, history>>

\* get_user, its HGETALL and return
GetHGetAll(p) ==
    /\ pc[p] = "get_hgetall"
    /\ Finish(p, Ok(DecodeUser(HGetAll(store, UserKey(req[p].email)))))
    /\ UNCHANGED <<store, req, locals, served, history>>

\* update_user, to its EXISTS
UpdateExists(p) ==
    \E email \in Emails, user \in User :
        /\ Accept(p, [op |-> "update_user", email |-> email, user |-> user])
        /\ IF UpdateMissing(store, UserKey(email))
           THEN Finish(p, HTTPException(404, "User not found"))
           ELSE /\ pc' = [pc EXCEPT ![p] = "update_hset"]
                /\ UNCHANGED resp
        /\ UNCHANGED <<store, locals, history>>

\* update_user, its HSET and return
UpdateHSet(p) ==
    LET user == req[p].user
        user_key == UserKey(req[p].email)
    IN  /\ pc[p] = "update_hset"
        /\ store' = HSet(store, user_key, UserMapping(user))
        /\ Finish(p, Message("User updated successfully"))
        /\ lastWrite' = [k \in DOMAIN lastWrite \cup {user_key} |->
                            IF k = user_key THEN user ELSE lastWrite[k]]
        /\ created' = {}
        /\ createsOnly' = FALSE
        /\ live' = [live EXCEPT ![user_key] = @ + (1 - Exists(store, user_key))]
        /\ UNCHANGED <<req, locals, served, deleted>>

\* delete_user: one DEL, and the response from its reply
DeleteUser(p) ==
    \E email \in Emails :
        LET user_key == UserKey(email)
            result == DelReply(store, user_key)
        IN  /\ Accept(p, [op |-> "delete_user", email |-> email])
            /\ store' = Del(store, user_key)
            /\ IF DeleteMissing(result)
               THEN /\ Finish(p, HTTPException(404, "User not found"))
                    /\ UNCHANGED history
               ELSE /\ Finish(p, Message("User deleted successfully"))
                    /\ lastWrite' = [k \in DOMAIN lastWrite \ {user_key} |-> lastWrite[k]]
                    /\ deleted' = deleted \cup {user_key}
                    /\ created' = {}
                    /\ createsOnly' = FALSE
                    /\ live' = [live EXCEPT ![user_key] = @ - 1]
            /\ UNCHANGED locals

\* get_all_users, to its KEYS
ListKeys(p) ==
    LET found == Keys(store, "user:")
    IN  /\ Accept(p, [op |-> "get_all_users"])
        /\ keys' = [keys EXCEPT ![p] = found]
        /\ users' = [users EXCEPT ![p] = <<>>]
        /\ IF found = {}
           THEN Finish(p, Ok([users |-> <<>>]))
           ELSE /\ pc' = [pc EXCEPT ![p] = "list_hgetall"]
                /\ UNCHANGED resp
        /\ UNCHANGED <<store, history>>

\* get_all_users, one turn of its loop: HGETALL of the next key (the order of
\* the keys is the store's), and the return after the last
ListHGetAll(p) ==
    /\ pc[p] = "list_hgetall"
    /\ \E key \in keys[p] :
        LET rest == keys[p] \ {key}
            list == Append(users[p], DecodeUser(HGetAll(store, key)))
        IN  /\ keys' = [keys EXCEPT ![p] = rest]
            /\ IF rest = {}
               THEN /\ Finish(p, Ok([users |-> list]))
                    /\ users' = [users EXCEPT ![p] = <<>>]
               ELSE /\ users' = [users EXCEPT ![p] = list]
                    /\ UNCHANGED <<pc, resp>>
    /\ UNCHANGED <<store, req, served, history>>

\* the framework sends the response; the worker is free again
Return(p) ==
    /\ pc[p] = "done"
    /\ pc' = [pc EXCEPT ![p] = "idle"]
    /\ req' = [req EXCEPT ![p] = NoRequest]
    /\ resp' = [resp EXCEPT ![p] = NoResponse]
    /\ UNCHANGED <<store, locals, served, history>>

\* Requests handled concurrently by the thread pool's workers.
Next ==
    \/ \E p \in Workers : ReadRoot(p)
    \/ \E p \in Workers : CreateExists(p)
    \/ \E p \in Workers : CreateHSet(p)
    \/ \E p \in Workers : GetExists(p)
    \/ \E p \in Workers : GetHGetAll(p)
    \/ \E p \in Workers : UpdateExists(p)
    \/ \E p \in Workers : UpdateHSet(p)
    \/ \E p \in Workers : DeleteUser(p)
    \/ \E p \in Workers : ListKeys(p)
    \/ \E p \in Workers : ListHGetAll(p)
    \/ \E p \in Workers : Return(p)

Spec == Init /\ [][Next]_vars

\* One request at a time: a worker moves only while every other is idle.
Alone(p) == \A q \in Workers \ {p} : pc[q] = "idle"

SeqNext ==
    \/ \E p \in Workers : Alone(p) /\ ReadRoot(p)
    \/ \E p \in Workers : Alone(p) /\ CreateExists(p)
    \/ \E p \in Workers : Alone(p) /\ CreateHSet(p)
    \/ \E p \in Workers : Alone(p) /\ GetExists(p)
    \/ \E p \in Workers : Alone(p) /\ GetHGetAll(p)
    \/ \E p \in Workers : Alone(p) /\ UpdateExists(p)
    \/ \E p \in Workers : Alone(p) /\ UpdateHSet(p)
    \/ \E p \in Workers : Alone(p) /\ DeleteUser(p)
    \/ \E p \in Workers : Alone(p) /\ ListKeys(p)
    \/ \E p \in Workers : Alone(p) /\ ListHGetAll(p)
    \/ \E p \in Workers : Alone(p) /\ Return(p)

SeqSpec == Init /\ [][SeqNext]_vars

\* ------------------------------------------------------------ the claims
Done(p, op) == pc[p] = "done" /\ req[p].op = op

NotFound == HTTPException(404, "User not found")
Conflict == HTTPException(400, "User already exists")

\* The name and email held under a stored key, as strings.
StoredUser(k) ==
    [name |-> store[k][[bytes |-> "name"]].bytes,
     email |-> store[k][[bytes |-> "email"]].bytes]

\* C1: one request at a time, a Get user on an email whose record exists
\* answers 200 with exactly the name and email of the most recent successful
\* Create user or Update user on that key.
C1_GetReturnsLastWrite ==
    \A p \in Workers :
        (Done(p, "get_user") /\ UserKey(req[p].email) \in DOMAIN store)
        => /\ UserKey(req[p].email) \in DOMAIN lastWrite
           /\ resp[p] = [status |-> 200, body |-> lastWrite[UserKey(req[p].email)]]

\* A Get user answered 200 with an email other than the one asked for: the
\* record was created and then updated.
C1_Witness ==
    \E p \in Workers :
        /\ Done(p, "get_user")
        /\ resp[p].status = 200
        /\ resp[p].body.email # req[p].email

\* C2: one request at a time, a Create user whose email has a stored record
\* answers 400 "User already exists" and leaves the store as it was.
C2_CreateExistingConflicts ==
    [][\A p \in Workers, user \in User :
          (/\ pc[p] = "idle"
           /\ req'[p] = [op |-> "create_user", user |-> user]
           /\ UserKey(user.email) \in DOMAIN store)
          => (pc'[p] = "done" /\ resp'[p] = Conflict /\ store' = store)]_vars

\* A Create user answered 400 while the record holds another name.
C2_Witness ==
    \E p \in Workers :
        /\ Done(p, "create_user")
        /\ resp[p] = Conflict
        /\ UserKey(req[p].user.email) \in DOMAIN store
        /\ StoredUser(UserKey(req[p].user.email)).name # req[p].user.name

\* C3: one request at a time, a Get user, Update user or Delete user on an
\* email with no stored record answers 404 "User not found" and leaves the
\* whole store as it was.
C3_MissingIsNotFound ==
    [][\A p \in Workers, email \in Emails :
          (/\ pc[p] = "idle"
           /\ req'[p].op \in {"get_user", "update_user", "delete_user"}
           /\ req'[p].email = email
           /\ UserKey(email) \notin DOMAIN store)
          => (pc'[p] = "done" /\ resp'[p] = NotFound /\ store' = store)]_vars

\* An Update user answered 404 while another record is stored, and no record
\* stands under its key.
C3_Witness ==
    \E p \in Workers :
        /\ Done(p, "update_user")
        /\ resp[p] = NotFound
        /\ UserKey(req[p].email) \notin DOMAIN store
        /\ store # EmptyStore

\* C4: no two stored records carry the same email.
C4_OneRecordPerEmail ==
    \A k1, k2 \in DOMAIN store :
        k1 # k2 => StoredUser(k1).email # StoredUser(k2).email

\* C5: one request at a time, after a successful Delete user on an email its
\* record is absent and every Get user on it answers 404 until the next
\* successful Create user on it; the delete removes that record and no other.
C5_DeletedStaysAbsent ==
    [][/\ \A k \in deleted' : k \notin DOMAIN store'
       /\ \A p \in Workers :
             (/\ pc'[p] = "done"
              /\ req'[p].op = "get_user"
              /\ UserKey(req'[p].email) \in deleted')
             => resp'[p] = NotFound
       /\ \A p \in Workers :
             (/\ pc[p] = "idle"
              /\ req'[p].op = "delete_user"
              /\ resp'[p].status = 200)
             => /\ UserKey(req'[p].email) \in DOMAIN store
                /\ DOMAIN store' = DOMAIN store \ {UserKey(req'[p].email)}
                /\ \A k \in DOMAIN store' : store'[k] = store[k]]_vars

\* A Get user answered 404 on an email deleted before, another record is
\* still stored.
C5_Witness ==
    \E p \in Workers :
        /\ Done(p, "get_user")
        /\ resp[p] = NotFound
        /\ UserKey(req[p].email) \in deleted
        /\ store # EmptyStore

\* C6: one request at a time, List users returns one entry per stored record
\* and nothing else; while only creates have succeeded, the entries are the
\* created users, one each.
C6_ListIsTheStore ==
    \A p \in Workers :
        Done(p, "get_all_users")
        => /\ resp[p].status = 200
           /\ DOMAIN resp[p].body = {"users"}
           /\ \E f \in [1..Len(resp[p].body.users) -> DOMAIN store] :
                 /\ \A k \in DOMAIN store : \E i \in DOMAIN f : f[i] = k
                 /\ \A i, j \in DOMAIN f : f[i] = f[j] => i = j
                 /\ \A i \in DOMAIN f : resp[p].body.users[i] = StoredUser(f[i])
           /\ createsOnly
              => /\ Len(resp[p].body.users) = Cardinality(created)
                 /\ {resp[p].body.users[i] : i \in 1..Len(resp[p].body.users)} = created
                 /\ \A u, v \in created : u.email = v.email => u = v

\* A list of two users after two creates and nothing else.
C6_Witness ==
    \E p \in Workers :
        /\ Done(p, "get_all_users")
        /\ createsOnly
        /\ Len(resp[p].body.users) = 2

\* C7: under any interleaving, a Get user that answers 200 returns both name
\* and email, never an empty or partial field map.
C7_GetReturnsWholeRecord ==
    \A p \in Workers :
        (Done(p, "get_user") /\ resp[p].status = 200)
        => DOMAIN resp[p].body = {"name", "email"}

\* C8: under any interleaving, Update user's write lands only on a key that
\* holds a record at the moment of the write.
C8_UpdateNeverCreates ==
    [][\A p \in Workers :
          (pc[p] = "update_hset" /\ pc'[p] = "done")
          => UserKey(req[p].email) \in DOMAIN store]_vars

\* C9: under any interleaving, a Create user that reports success writes to
\* a key that holds no record at the moment of the write.
C9_CreateNeverOverwrites ==
    [][\A p \in Workers :
          (/\ pc[p] = "create_hset"
           /\ pc'[p] = "done"
           /\ resp'[p] = Message("User created successfully"))
          => UserKey(req[p].user.email) \notin DOMAIN store]_vars

\* C10: under any interleaving, the successful Delete user requests on an
\* email never outnumber the writes that made its key exist: the difference
\* is one while the record is stored and zero while it is not.
C10_DeleteDecidedByDel ==
    \A k \in AllKeys : live[k] = IF k \in DOMAIN store THEN 1 ELSE 0

\* Two Delete user requests on one email, finished and not yet returned:
\* one answered 200, the other 404.
C10_Witness ==
    \E p, q \in Workers :
        /\ Done(p, "delete_user")
        /\ Done(q, "delete_user")
        /\ req[p].email = req[q].email
        /\ resp[p].status = 200
        /\ resp[q] = NotFound


====
